---- MODULE Spec2Model ----
(***************************************************************************)
(* Model of task_api.py: an in-memory task store (tasks_db) behind a       *)
(* bearer-token check against the map of provider token sets (tokens_db),  *)
(* which is filled by the Salesforce code / refresh-token exchange.        *)
(***************************************************************************)
EXTENDS Integers, Sequences, FiniteSets, TLC

(***************************************************************************)
(* Bounds of the exploration.                                              *)
(***************************************************************************)
MaxCreates == 1
MaxDeletes == 2
MaxTicks == 1
NumThreads == 2

(***************************************************************************)
(* Program constants.                                                      *)
(***************************************************************************)
SeedCount == 20
UserIdSuffixLen == 8
AccessTokenPrefixLen == 10
DefaultExpiresIn == 7200
ACCESS_TOKEN_EXPIRE_MINUTES == 30

HTTP_200_OK == 200
HTTP_201_CREATED == 201
HTTP_204_NO_CONTENT == 204
HTTP_400_BAD_REQUEST == 400
HTTP_401_UNAUTHORIZED == 401
HTTP_404_NOT_FOUND == 404

(* The defaults of the Salesforce OAuth configuration (environment unset). *)
CLIENT_ID ==
  "3MVG9IXUyidRC0l2tzIXfjoVPzLqAsHzSwWPUL9ik5229A3AKolaFLRE8nZxnELmJCK0sedUCEKPqvd.LpQtW"

CLIENT_SECRET == "0387FDCB815A02A5496DD87176671C78FE0DB29C2A6CC3CD5C604678E34517D7"

REDIRECT_URI == "http://localhost:8000/oauth/callback"

AUTH_URL == "https://login.salesforce.com/services/oauth2/authorize"

TOKEN_URL == "https://login.salesforce.com/services/oauth2/token"

StatusEnum == {"Pas commencé", "En cours", "Terminée"}

PriorityEnum == {"High", "Normal", "Low"}

task_names ==
  << "api test 9",
     "Complete project requirements documentation",
     "Develop frontend UI components",
     "Set up database schema and models",
     "Implement API authentication",
     "Create automated test suite",
     "Perform security audit",
     "Optimize database queries",
     "Deploy application to staging",
     "Conduct user acceptance testing",
     "Fix reported bugs in module A",
     "Update user documentation",
     "Refactor legacy code module",
     "Integrate with third-party payment API",
     "Create admin dashboard",
     "Implement user notification system",
     "Perform load testing",
     "Migrate data from old system",
     "Review and improve error handling",
     "Implement logging and monitoring",
     "Prepare release notes for v1.0" >>

(***************************************************************************)
(* The record the seeding loop builds for i; subject takes the default of  *)
(* TaskBase.                                                               *)
(***************************************************************************)
SeedTask(i) ==
  [ id |-> i,
    Task_Name__c |-> IF i - 1 < Len(task_names) THEN task_names[i] ELSE "Task {i}",
    Status |-> IF i % 3 = 1 THEN "En cours"
               ELSE IF i % 3 = 2 THEN "Terminée" ELSE "Pas commencé",
    Capacite__c |-> 80 - (i % 5) * 10,
    Effort_Realise__c |-> 20 + (i % 4) * 15,
    subject |-> "Other",
    Priority |-> IF i % 3 = 0 THEN "High"
                 ELSE IF i % 3 = 1 THEN "Normal" ELSE "Low" ]

(***************************************************************************)
(* Python slicing of a sequence, s[start:stop] with step 1, on 1-based     *)
(* TLA+ sequences: a negative bound counts from the end, then both bounds  *)
(* are clamped to 0..len(s), and the slice is empty when start >= stop.    *)
(***************************************************************************)
PyIndex(n, i) == IF i < 0 THEN (IF i + n < 0 THEN 0 ELSE i + n)
                 ELSE (IF i > n THEN n ELSE i)

PySlice_StopInclusive(s, start, stop) ==
  LET lo == PyIndex(Len(s), start)
      hi == PyIndex(Len(s), stop + 1)
  IN  IF lo >= hi THEN << >> ELSE [k \in 1..(hi - lo) |-> s[lo + k]]

PySlice(s, start, stop) ==
  LET lo == PyIndex(Len(s), start)
      hi == PyIndex(Len(s), stop)
  IN  IF lo >= hi THEN << >> ELSE [k \in 1..(hi - lo) |-> s[lo + k]]

(***************************************************************************)
(* s[-8:] and s[:10] of the exchange handlers.                             *)
(***************************************************************************)
Last8(s) == PySlice(s, 0 - UserIdSuffixLen, Len(s))

First10(s) == PySlice(s, 0, AccessTokenPrefixLen)

UserId(access_token) == <<"user_">> \o Last8(access_token)


(***************************************************************************)
(* The provider.  An access token is a sequence of characters.  TokA and   *)
(* TokB are different tokens with the same last eight characters, TokC is  *)
(* shorter than eight characters, TokZ is a token the provider never       *)
(* issues.  The clock advances in steps of TickSeconds.                    *)
(***************************************************************************)
TickSeconds == ACCESS_TOKEN_EXPIRE_MINUTES * 60

Tail1 == <<"q", "r", "s", "t", "u", "v", "w", "x">>

TokA == <<"0", "0", "D", "A">> \o Tail1

TokB == <<"0", "0", "D", "B">> \o Tail1

TokC == <<"0", "0", "D", "C", "!">>

TokZ == <<"z">>

ProviderTokens == {TokA, TokB, TokC}

(***************************************************************************)
(* The JSON body of a successful answer of TOKEN_URL at time t.  The app   *)
(* asks for the scopes "api refresh_token"; the provider grants a subset.  *)
(* expires_in is a one-element sequence when the key is present.           *)
(***************************************************************************)
TokenSet(tok, t) ==
  [ access_token |-> tok,
    token_type |-> "Bearer",
    scope |-> IF tok = TokB THEN {"api"} ELSE {"api", "refresh_token"},
    expires_in |-> IF tok = TokB THEN <<TickSeconds>> ELSE << >>,
    issued_at |-> t ]

Accepted(t) ==
  {[status_code |-> 200, text |-> "", json |-> TokenSet(tok, t)] : tok \in ProviderTokens}

Rejected ==
  { [status_code |-> 400, text |-> "invalid_grant", json |-> << >>],
    [status_code |-> 401, text |-> "invalid_client", json |-> << >>] }

ProviderResponses(t) == Accepted(t) \cup Rejected

(***************************************************************************)
(* Requests.  An Authorization header is << >> when absent, else the pair  *)
(* of scheme and credentials.  An Optional[str] parameter is << >> for     *)
(* None, else a one-element sequence.                                      *)
(***************************************************************************)
NoHeader == << >>

Bearer(tok) == <<"Bearer", tok>>

Headers == {NoHeader, Bearer(TokZ)} \cup {Bearer(tok) : tok \in ProviderTokens}

TaskInputs ==
  { [ Task_Name__c |-> "x", Status |-> "Pas commencé", Capacite__c |-> 10,
      Effort_Realise__c |-> 5, subject |-> "Other", Priority |-> "Normal" ] }

UpdateInputs ==
  { [ Task_Name__c |-> "y", Status |-> "Terminée", Capacite__c |-> 0,
      Effort_Realise__c |-> 40, subject |-> "Call", Priority |-> "High" ] }

TaskIdInputs == {1, SeedCount, SeedCount + 1}

ListInputs ==
  { [skip |-> 0, limit |-> 100],
    [skip |-> 0, limit |-> 2],
    [skip |-> SeedCount - 1, limit |-> 2],
    [skip |-> SeedCount - 1, limit |-> 0],
    [skip |-> SeedCount + 5, limit |-> 2] }

TokenParams ==
  { [grant_type |-> "authorization_code", code |-> <<"c0de">>, refresh_token |-> << >>],
    [grant_type |-> "authorization_code", code |-> << >>, refresh_token |-> <<"r3fr">>],
    [grant_type |-> "refresh_token", code |-> << >>, refresh_token |-> <<"r3fr">>],
    [grant_type |-> "refresh_token", code |-> <<"c0de">>, refresh_token |-> << >>],
    [grant_type |-> "password", code |-> <<"c0de">>, refresh_token |-> <<"r3fr">>] }

Truthy(opt) == opt # << >> /\ opt[1] # ""

(***************************************************************************)
(* State.                                                                  *)
(*   tasks_db   the list of Task records                                   *)
(*   tokens_db  the dict user_id -> token set of the provider              *)
(*   now        the wall clock, in seconds                                 *)
(*   issued     history: the ids create_task has returned, in order        *)
(*   last       the request served last and its response                   *)
(*   thr        the requests the worker threads are serving (used when     *)
(*              handlers run concurrently; otherwise every thread is idle) *)
(***************************************************************************)
VARIABLES tasks_db, tokens_db, now, issued, last, thr

vars == <<tasks_db, tokens_db, now, issued, last, thr>>

Threads == 1..NumThreads

Idle == [pc |-> "idle"]

NoProvider == [status_code |-> 0, text |-> ""]

Response(op, hdr, args, status, body, posts, provider) ==
  [ op |-> op, hdr |-> hdr, args |-> args, status |-> status, body |-> body,
    posts |-> posts, provider |-> provider ]

Init ==
  /\ tasks_db = [i \in 1..SeedCount |-> SeedTask(i)]
  /\ tokens_db = [u \in {} |-> << >>]
  /\ now = 0
  /\ issued = << >>
  /\ last = Response("init", NoHeader, << >>, 0, << >>, 0, NoProvider)
  /\ thr = [t \in Threads |-> Idle]

(***************************************************************************)
(* oauth2_scheme: OAuth2SalesforceBearer returns what OAuth2PasswordBearer *)
(* extracts, the credentials of a Bearer Authorization header, and answers *)
(* 401 when the header is absent or has another scheme.                    *)
(***************************************************************************)
oauth2_scheme(hdr) ==
  IF hdr = NoHeader \/ hdr[1] # "Bearer"
  THEN [ok |-> FALSE, status |-> HTTP_401_UNAUTHORIZED, detail |-> "Not authenticated"]
  ELSE [ok |-> TRUE, token |-> hdr[2]]

(***************************************************************************)
(* get_current_user: the first entry of tokens_db whose access_token is    *)
(* the presented token yields a user with the fixed scope list ["api"];    *)
(* no entry, credentials_exception.  (Two entries never hold the same      *)
(* access token: the key is a function of it.)                             *)
(***************************************************************************)
get_current_user_ByLabel(token) ==
  LET matches == {u \in DOMAIN tokens_db : u = UserId(token)}
  IN  IF matches # {}
      THEN [ ok |-> TRUE,
             user |-> [ username |-> CHOOSE u \in matches : TRUE,
                        disabled |-> FALSE,
                        scopes |-> {"api"} ] ]
      ELSE [ ok |-> FALSE, status |-> HTTP_401_UNAUTHORIZED,
             detail |-> "Could not validate credentials" ]

get_current_user(token) ==
  LET matches == {u \in DOMAIN tokens_db : tokens_db[u].access_token = token}
  IN  IF matches # {}
      THEN [ ok |-> TRUE,
             user |-> [ username |-> CHOOSE u \in matches : TRUE,
                        disabled |-> FALSE,
                        scopes |-> {"api"} ] ]
      ELSE [ ok |-> FALSE, status |-> HTTP_401_UNAUTHORIZED,
             detail |-> "Could not validate credentials" ]

(***************************************************************************)
(* Depends(get_current_user), itself Depends(oauth2_scheme).               *)
(***************************************************************************)
Authenticate(hdr) ==
  LET t == oauth2_scheme(hdr)
  IN  IF t.ok THEN get_current_user(t.token) ELSE t

(***************************************************************************)
(* The dependency raises before the handler is called: the response does   *)
(* not depend on the other parameters of the request.                      *)
(***************************************************************************)
Unauthorized(op, hdr, auth) ==
  Response(op, hdr, << >>, auth.status, auth.detail, 0, NoProvider)

(***************************************************************************)
(* The scan shared by read_task, update_task and delete_task: the index of *)
(* the first record whose id is task_id, 0 when there is none.             *)
(***************************************************************************)
FindTask_LastIndexWhenMissing(db, task_id) ==
  LET hits == {i \in DOMAIN db : db[i].id = task_id}
  IN  IF hits = {} THEN Len(db) ELSE CHOOSE i \in hits : \A j \in hits : i <= j

FindTask_LastMatch(db, task_id) ==
  LET hits == {i \in DOMAIN db : db[i].id = task_id}
  IN  IF hits = {} THEN 0 ELSE CHOOSE i \in hits : \A j \in hits : i >= j

FindTask(db, task_id) ==
  LET hits == {i \in DOMAIN db : db[i].id = task_id}
  IN  IF hits = {} THEN 0 ELSE CHOOSE i \in hits : \A j \in hits : i <= j

NotFound(op, hdr, args) ==
  Response(op, hdr, args, HTTP_404_NOT_FOUND, "Task not found", 0, NoProvider)

MakeTask(id, task) ==
  [ id |-> id,
    Task_Name__c |-> task.Task_Name__c,
    Status |-> task.Status,
    Capacite__c |-> task.Capacite__c,
    Effort_Realise__c |-> task.Effort_Realise__c,
    subject |-> task.subject,
    Priority |-> task.Priority ]

NumDeleted == SeedCount + Len(issued) - Len(tasks_db)

(***************************************************************************)
(* POST /tasks/                                                            *)
(***************************************************************************)
create_task_IdIsLength(hdr, task) ==
  /\ Len(issued) < MaxCreates
  /\ LET auth == Authenticate(hdr)
         new_task == MakeTask(Len(tasks_db), task)
     IN  IF ~auth.ok
         THEN /\ last' = Unauthorized("create_task", hdr, auth)
              /\ UNCHANGED <<tasks_db, issued>>
         ELSE /\ tasks_db' = Append(tasks_db, new_task)
              /\ issued' = Append(issued, new_task.id)
              /\ last' = Response("create_task", hdr, task, HTTP_201_CREATED, new_task, 0, NoProvider)
  /\ UNCHANGED <<tokens_db, now, thr>>

create_task(hdr, task) ==
  /\ Len(issued) < MaxCreates
  /\ LET auth == Authenticate(hdr)
         new_task == MakeTask(Len(tasks_db) + 1, task)
     IN  IF ~auth.ok
         THEN /\ last' = Unauthorized("create_task", hdr, auth)
              /\ UNCHANGED <<tasks_db, issued>>
         ELSE /\ tasks_db' = Append(tasks_db, new_task)
              /\ issued' = Append(issued, new_task.id)
              /\ last' = Response("create_task", hdr, task, HTTP_201_CREATED, new_task, 0, NoProvider)
  /\ UNCHANGED <<tokens_db, now, thr>>

(***************************************************************************)
(* GET /tasks/                                                             *)
(***************************************************************************)
read_tasks(hdr, skip, limit) ==
  /\ LET auth == Authenticate(hdr)
         args == [skip |-> skip, limit |-> limit]
     IN  IF ~auth.ok
         THEN last' = Unauthorized("read_tasks", hdr, auth)
         ELSE last' = Response("read_tasks", hdr, args, HTTP_200_OK,
                               PySlice(tasks_db, skip, skip + limit), 0, NoProvider)
  /\ UNCHANGED <<tasks_db, tokens_db, now, issued, thr>>

(***************************************************************************)
(* GET /tasks/{task_id}                                                    *)
(***************************************************************************)
read_task(hdr, task_id) ==
  /\ LET auth == Authenticate(hdr)
         i == FindTask(tasks_db, task_id)
     IN  IF ~auth.ok
         THEN last' = Unauthorized("read_task", hdr, auth)
         ELSE IF i # 0
         THEN last' = Response("read_task", hdr, task_id, HTTP_200_OK, tasks_db[i], 0, NoProvider)
         ELSE last' = NotFound("read_task", hdr, task_id)
  /\ UNCHANGED <<tasks_db, tokens_db, now, issued, thr>>

(***************************************************************************)
(* PUT /tasks/{task_id}                                                    *)
(***************************************************************************)
update_task_MovesToEnd(hdr, task_id, task_update) ==
  /\ LET auth == Authenticate(hdr)
         i == FindTask(tasks_db, task_id)
         args == [task_id |-> task_id, task_update |-> task_update]
         updated_task == MakeTask(task_id, task_update)
     IN  IF ~auth.ok
         THEN /\ last' = Unauthorized("update_task", hdr, auth)
              /\ UNCHANGED tasks_db
         ELSE IF i # 0
         THEN /\ tasks_db' = Append([k \in 1..(Len(tasks_db) - 1) |->
                                       IF k < i THEN tasks_db[k] ELSE tasks_db[k + 1]],
                                    updated_task)
              /\ last' = Response("update_task", hdr, args, HTTP_200_OK, updated_task, 0, NoProvider)
         ELSE /\ last' = NotFound("update_task", hdr, args)
              /\ UNCHANGED tasks_db
  /\ UNCHANGED <<tokens_db, now, issued, thr>>

update_task(hdr, task_id, task_update) ==
  /\ LET auth == Authenticate(hdr)
         i == FindTask(tasks_db, task_id)
         args == [task_id |-> task_id, task_update |-> task_update]
         updated_task == MakeTask(task_id, task_update)
     IN  IF ~auth.ok
         THEN /\ last' = Unauthorized("update_task", hdr, auth)
              /\ UNCHANGED tasks_db
         ELSE IF i # 0
         THEN /\ tasks_db' = [tasks_db EXCEPT ![i] = updated_task]
              /\ last' = Response("update_task", hdr, args, HTTP_200_OK, updated_task, 0, NoProvider)
         ELSE /\ last' = NotFound("update_task", hdr, args)
              /\ UNCHANGED tasks_db
  /\ UNCHANGED <<tokens_db, now, issued, thr>>

(***************************************************************************)
(* DELETE /tasks/{task_id}; tasks_db.pop(i) closes the gap.                *)
(***************************************************************************)
Pop(db, i) == [k \in 1..(Len(db) - 1) |-> IF k < i THEN db[k] ELSE db[k + 1]]

delete_task(hdr, task_id) ==
  /\ NumDeleted < MaxDeletes
  /\ LET auth == Authenticate(hdr)
         i == FindTask(tasks_db, task_id)
     IN  IF ~auth.ok
         THEN /\ last' = Unauthorized("delete_task", hdr, auth)
              /\ UNCHANGED tasks_db
         ELSE IF i # 0
         THEN /\ tasks_db' = Pop(tasks_db, i)
              /\ last' = Response("delete_task", hdr, task_id, HTTP_204_NO_CONTENT, << >>, 0, NoProvider)
         ELSE /\ last' = NotFound("delete_task", hdr, task_id)
              /\ UNCHANGED tasks_db
  /\ UNCHANGED <<tokens_db, now, issued, thr>>

(***************************************************************************)
(* tokens_db[user_id] = tokens                                             *)
(***************************************************************************)
StoreTokens(tokens) ==
  LET user_id == UserId(tokens.access_token)
  IN  [u \in DOMAIN tokens_db \cup {user_id} |->
         IF u = user_id THEN tokens ELSE tokens_db[u]]

ExchangeFailed(op, args, resp) ==
  Response(op, NoHeader, args, HTTP_400_BAD_REQUEST,
           <<"Failed to obtain access token: ", resp.text>>, 1, [status_code |-> resp.status_code, text |-> resp.text])

(***************************************************************************)
(* GET /oauth/callback: one requests.post to TOKEN_URL, answered by resp.  *)
(***************************************************************************)
oauth_callback(code, resp) ==
  /\ IF resp.status_code # 200
     THEN /\ last' = ExchangeFailed("oauth_callback", code, resp)
          /\ UNCHANGED tokens_db
     ELSE LET tokens == resp.json
          IN  /\ tokens_db' = StoreTokens(tokens)
              /\ last' = Response("oauth_callback", NoHeader, code, HTTP_200_OK,
                                  [ user_id |-> UserId(tokens.access_token),
                                    token_type |-> tokens.token_type,
                                    access_token |-> First10(tokens.access_token) \o <<"...">> ],
                                  1, [status_code |-> resp.status_code, text |-> resp.text])
  /\ UNCHANGED <<tasks_db, now, issued, thr>>

(***************************************************************************)
(* POST /oauth/token                                                       *)
(***************************************************************************)
token_StoresBeforeStatusCheck(params, resp) ==
  /\ IF ~ \/ (params.grant_type = "authorization_code" /\ Truthy(params.code))
          \/ (params.grant_type = "refresh_token" /\ Truthy(params.refresh_token))
     THEN /\ last' = Response("token", NoHeader, params, HTTP_400_BAD_REQUEST,
                              "Invalid request parameters", 0, NoProvider)
          /\ UNCHANGED tokens_db
     ELSE IF resp.status_code # 200
     THEN /\ tokens_db' = StoreTokens(TokenSet(<<resp.text>>, now))
          /\ last' = ExchangeFailed("token", params, resp)
     ELSE LET tokens == resp.json
          IN  /\ tokens_db' = StoreTokens(tokens)
              /\ last' = Response("token", NoHeader, params, HTTP_200_OK,
                                  [ access_token |-> tokens.access_token,
                                    token_type |-> tokens.token_type,
                                    expires_in |-> IF tokens.expires_in # << >>
                                                   THEN tokens.expires_in[1]
                                                   ELSE DefaultExpiresIn,
                                    scope |-> tokens.scope ],
                                  1, [status_code |-> resp.status_code, text |-> resp.text])
  /\ UNCHANGED <<tasks_db, now, issued, thr>>

token_RetriesOnFailure(params, resp) ==
  /\ IF ~ \/ (params.grant_type = "authorization_code" /\ Truthy(params.code))
          \/ (params.grant_type = "refresh_token" /\ Truthy(params.refresh_token))
     THEN /\ last' = Response("token", NoHeader, params, HTTP_400_BAD_REQUEST,
                              "Invalid request parameters", 0, NoProvider)
          /\ UNCHANGED tokens_db
     ELSE IF resp.status_code # 200
     THEN /\ last' = [ExchangeFailed("token", params, resp) EXCEPT !.posts = 2]
          /\ UNCHANGED tokens_db
     ELSE LET tokens == resp.json
          IN  /\ tokens_db' = StoreTokens(tokens)
              /\ last' = Response("token", NoHeader, params, HTTP_200_OK,
                                  [ access_token |-> tokens.access_token,
                                    token_type |-> tokens.token_type,
                                    expires_in |-> IF tokens.expires_in # << >>
                                                   THEN tokens.expires_in[1]
                                                   ELSE DefaultExpiresIn,
                                    scope |-> tokens.scope ],
                                  1, [status_code |-> resp.status_code, text |-> resp.text])
  /\ UNCHANGED <<tasks_db, now, issued, thr>>

token(params, resp) ==
  /\ IF ~ \/ (params.grant_type = "authorization_code" /\ Truthy(params.code))
          \/ (params.grant_type = "refresh_token" /\ Truthy(params.refresh_token))
     THEN /\ last' = Response("token", NoHeader, params, HTTP_400_BAD_REQUEST,
                              "Invalid request parameters", 0, NoProvider)
          /\ UNCHANGED tokens_db
     ELSE IF resp.status_code # 200
     THEN /\ last' = ExchangeFailed("token", params, resp)
          /\ UNCHANGED tokens_db
     ELSE LET tokens == resp.json
          IN  /\ tokens_db' = StoreTokens(tokens)
              /\ last' = Response("token", NoHeader, params, HTTP_200_OK,
                                  [ access_token |-> tokens.access_token,
                                    token_type |-> tokens.token_type,
                                    expires_in |-> IF tokens.expires_in # << >>
                                                   THEN tokens.expires_in[1]
                                                   ELSE DefaultExpiresIn,
                                    scope |-> tokens.scope ],
                                  1, [status_code |-> resp.status_code, text |-> resp.text])
  /\ UNCHANGED <<tasks_db, now, issued, thr>>

(***************************************************************************)
(* GET /oauth/authorize: a redirect (307, the default of RedirectResponse) *)
(* to AUTH_URL with the query parameters, kept here as a record instead of *)
(* their urlencode()d string.                                              *)
(***************************************************************************)
authorize ==
  /\ last' = Response("authorize", NoHeader, << >>, 307,
                      [ url |-> AUTH_URL,
                        query |-> [ response_type |-> "code",
                                    client_id |-> CLIENT_ID,
                                    redirect_uri |-> REDIRECT_URI,
                                    scope |-> "api refresh_token" ] ],
                      0, NoProvider)
  /\ UNCHANGED <<tasks_db, tokens_db, now, issued, thr>>

(***************************************************************************)
(* GET /login                                                              *)
(***************************************************************************)
login_redirect ==
  /\ last' = Response("login_redirect", NoHeader, << >>, 307,
                      [url |-> "/oauth/authorize"], 0, NoProvider)
  /\ UNCHANGED <<tasks_db, tokens_db, now, issued, thr>>

(***************************************************************************)
(* GET /users/me/                                                          *)
(***************************************************************************)
read_users_me_DropsSession(hdr) ==
  /\ LET auth == Authenticate(hdr)
     IN  IF ~auth.ok
         THEN /\ last' = Unauthorized("read_users_me", hdr, auth)
              /\ UNCHANGED tokens_db
         ELSE /\ last' = Response("read_users_me", hdr, << >>, HTTP_200_OK, auth.user,
                                  0, NoProvider)
              /\ tokens_db' = [u \in DOMAIN tokens_db \ {auth.user.username} |-> tokens_db[u]]
  /\ UNCHANGED <<tasks_db, now, issued, thr>>

read_users_me(hdr) ==
  /\ LET auth == Authenticate(hdr)
     IN  IF ~auth.ok
         THEN last' = Unauthorized("read_users_me", hdr, auth)
         ELSE last' = Response("read_users_me", hdr, << >>, HTTP_200_OK, auth.user,
                               0, NoProvider)
  /\ UNCHANGED <<tasks_db, tokens_db, now, issued, thr>>

(***************************************************************************)
(* GET /status                                                             *)
(***************************************************************************)
get_status ==
  /\ last' = Response("get_status", NoHeader, << >>, HTTP_200_OK,
                      [ status |-> "ok",
                        version |-> "1.0.0",
                        configured |-> /\ CLIENT_ID # "default_client_id"
                                       /\ CLIENT_SECRET # "default_client_secret",
                        auth_url |-> AUTH_URL,
                        token_url |-> TOKEN_URL,
                        redirect_uri |-> REDIRECT_URI ],
                      0, NoProvider)
  /\ UNCHANGED <<tasks_db, tokens_db, now, issued, thr>>

(***************************************************************************)
(* Time passes between requests.                                           *)
(***************************************************************************)
Tick ==
  /\ now + TickSeconds <= MaxTicks * TickSeconds
  /\ now' = now + TickSeconds
  /\ UNCHANGED <<tasks_db, tokens_db, issued, last, thr>>

Next ==
  \/ \E hdr \in Headers, task \in TaskInputs : create_task(hdr, task)
  \/ \E hdr \in Headers, q \in ListInputs : read_tasks(hdr, q.skip, q.limit)
  \/ \E hdr \in Headers, task_id \in TaskIdInputs : read_task(hdr, task_id)
  \/ \E hdr \in Headers, task_id \in TaskIdInputs, task \in UpdateInputs :
        update_task(hdr, task_id, task)
  \/ \E hdr \in Headers, task_id \in TaskIdInputs : delete_task(hdr, task_id)
  \/ \E resp \in ProviderResponses(now) : oauth_callback("c0de", resp)
  \/ \E params \in TokenParams, resp \in ProviderResponses(now) : token(params, resp)
  \/ authorize
  \/ login_redirect
  \/ \E hdr \in Headers : read_users_me(hdr)
  \/ get_status

Spec == Init /\ [][Next]_vars

(***************************************************************************)
(* The same program with the clock running.                                *)
(***************************************************************************)
NextClock == Next \/ Tick

SpecClock == Init /\ [][NextClock]_vars

(***************************************************************************)
(* Concurrent handlers.  create_task, update_task and delete_task are      *)
(* plain def handlers, which the framework runs on worker threads; no lock *)
(* protects tasks_db, so a thread can be preempted between reading the     *)
(* list and writing it.  Each thread serves one request.  The dependency   *)
(* (Authenticate) has run before the handler starts.  A handler is cut at  *)
(* the one point that matters: between len(tasks_db) + 1 and append, and   *)
(* between the scan finding index i and the write or pop at i.  The        *)
(* response of a thread is kept in thr, not in last.                       *)
(***************************************************************************)
ConcIdInputs == {1, 2, SeedCount}

Done(op, task_id, status, hit, body) ==
  [pc |-> "done", op |-> op, task_id |-> task_id, status |-> status, hit |-> hit,
   body |-> body]

(* new_task = Task(id=len(tasks_db) + 1, ...)                              *)
create_task_read(t, hdr, task) ==
  /\ thr[t].pc = "idle"
  /\ LET auth == Authenticate(hdr)
     IN  IF ~auth.ok
         THEN thr' = [thr EXCEPT ![t] = Done("create_task", 0, auth.status, 0, auth.detail)]
         ELSE thr' = [thr EXCEPT ![t] = [pc |-> "append", op |-> "create_task",
                                         new_task |-> MakeTask(Len(tasks_db) + 1, task)]]
  /\ UNCHANGED <<tasks_db, tokens_db, now, issued, last>>

(* tasks_db.append(new_task); return new_task                              *)
create_task_append(t) ==
  /\ thr[t].pc = "append"
  /\ LET new_task == thr[t].new_task
     IN  /\ tasks_db' = Append(tasks_db, new_task)
         /\ issued' = Append(issued, new_task.id)
         /\ thr' = [thr EXCEPT ![t] = Done("create_task", new_task.id, HTTP_201_CREATED,
                                           new_task.id, new_task)]
  /\ UNCHANGED <<tokens_db, now, last>>

(* for i, task in enumerate(tasks_db): if task.id == task_id:              *)
update_task_scan(t, hdr, task_id, task_update) ==
  /\ thr[t].pc = "idle"
  /\ LET auth == Authenticate(hdr)
         i == FindTask(tasks_db, task_id)
     IN  IF ~auth.ok
         THEN thr' = [thr EXCEPT ![t] = Done("update_task", task_id, auth.status, 0, auth.detail)]
         ELSE IF i # 0
         THEN thr' = [thr EXCEPT ![t] = [pc |-> "write", op |-> "update_task", i |-> i,
                                         task_id |-> task_id,
                                         updated_task |-> MakeTask(task_id, task_update)]]
         ELSE thr' = [thr EXCEPT ![t] = Done("update_task", task_id, HTTP_404_NOT_FOUND, 0,
                                             "Task not found")]
  /\ UNCHANGED <<tasks_db, tokens_db, now, issued, last>>

(* tasks_db[i] = updated_task: IndexError, answered 500, when the list has *)
(* become shorter than i.  hit is the id of the record that was replaced.  *)
update_task_write(t) ==
  /\ thr[t].pc = "write"
  /\ LET i == thr[t].i
     IN  IF i > Len(tasks_db)
         THEN /\ thr' = [thr EXCEPT ![t] = Done("update_task", thr[t].task_id, 500, 0,
                                                "Internal Server Error")]
              /\ UNCHANGED tasks_db
         ELSE /\ tasks_db' = [tasks_db EXCEPT ![i] = thr[t].updated_task]
              /\ thr' = [thr EXCEPT ![t] = Done("update_task", thr[t].task_id, HTTP_200_OK,
                                                tasks_db[i].id, thr[t].updated_task)]
  /\ UNCHANGED <<tokens_db, now, issued, last>>

delete_task_scan(t, hdr, task_id) ==
  /\ thr[t].pc = "idle"
  /\ LET auth == Authenticate(hdr)
         i == FindTask(tasks_db, task_id)
     IN  IF ~auth.ok
         THEN thr' = [thr EXCEPT ![t] = Done("delete_task", task_id, auth.status, 0, auth.detail)]
         ELSE IF i # 0
         THEN thr' = [thr EXCEPT ![t] = [pc |-> "pop", op |-> "delete_task", i |-> i,
                                         task_id |-> task_id]]
         ELSE thr' = [thr EXCEPT ![t] = Done("delete_task", task_id, HTTP_404_NOT_FOUND, 0,
                                             "Task not found")]
  /\ UNCHANGED <<tasks_db, tokens_db, now, issued, last>>

(* tasks_db.pop(i): IndexError when the list has become shorter than i.    *)
(* hit is the id of the record that was removed.                           *)
delete_task_pop(t) ==
  /\ thr[t].pc = "pop"
  /\ LET i == thr[t].i
     IN  IF i > Len(tasks_db)
         THEN /\ thr' = [thr EXCEPT ![t] = Done("delete_task", thr[t].task_id, 500, 0,
                                                "Internal Server Error")]
              /\ UNCHANGED tasks_db
         ELSE /\ tasks_db' = Pop(tasks_db, i)
              /\ thr' = [thr EXCEPT ![t] = Done("delete_task", thr[t].task_id,
                                                HTTP_204_NO_CONTENT, tasks_db[i].id, << >>)]
  /\ UNCHANGED <<tokens_db, now, issued, last>>

NextConc ==
  \/ \E resp \in ProviderResponses(now) : oauth_callback("c0de", resp)
  \/ \E t \in Threads, hdr \in Headers, task \in TaskInputs : create_task_read(t, hdr, task)
  \/ \E t \in Threads : create_task_append(t)
  \/ \E t \in Threads, hdr \in Headers, task_id \in ConcIdInputs, task \in UpdateInputs :
        update_task_scan(t, hdr, task_id, task)
  \/ \E t \in Threads : update_task_write(t)
  \/ \E t \in Threads, hdr \in Headers, task_id \in ConcIdInputs :
        delete_task_scan(t, hdr, task_id)
  \/ \E t \in Threads : delete_task_pop(t)

SpecConc == Init /\ [][NextConc]_vars

(***************************************************************************)
(* Vocabulary of the properties.                                           *)
(***************************************************************************)
TaskOps == {"create_task", "read_tasks", "read_task", "update_task", "delete_task"}

QueryOps == {"read_tasks", "read_task"}

ExchangeOps == {"oauth_callback", "token"}

(* The step is a request of one of ops: every handler sets last and leaves *)
(* the clock alone.                                                        *)
Served(ops) == now' = now /\ last'.op \in ops

TokenHeld(tok) == \E u \in DOMAIN tokens_db : tokens_db[u].access_token = tok

PresentsHeldToken(hdr) == hdr # NoHeader /\ hdr[1] = "Bearer" /\ TokenHeld(hdr[2])

EntryOf(tok) == tokens_db[CHOOSE u \in DOMAIN tokens_db : tokens_db[u].access_token = tok]

RequiredScopes(op) == IF op \in QueryOps THEN {"read"} ELSE {"write"}

ExpiresAt(tokens) ==
  tokens.issued_at + (IF tokens.expires_in # << >> THEN tokens.expires_in[1]
                      ELSE DefaultExpiresIn)

Min(a, b) == IF a < b THEN a ELSE b

(***************************************************************************)
(* C1: no two records that are in the store at the same time share an id.  *)
(* Stated as written; create_task numbers by len(tasks_db) + 1, so a       *)
(* create after a delete repeats the id of the last record.                *)
(***************************************************************************)
C1_UniqueIds ==
  \A i, j \in DOMAIN tasks_db : i # j => tasks_db[i].id # tasks_db[j].id

(***************************************************************************)
(* C2: the id create gives to a new record was never held by an earlier    *)
(* record, seeded or created, deleted or not.  Stated as written.          *)
(***************************************************************************)
C2_IdsNeverReused ==
  \A k \in DOMAIN issued :
     issued[k] \notin (1..SeedCount) \cup {issued[j] : j \in 1..(k - 1)}

(***************************************************************************)
(* C3: a task request is executed iff its bearer token equals the          *)
(* access_token of an entry of tokens_db; otherwise it is answered 401 and *)
(* tasks_db and tokens_db are unchanged.                                   *)
(***************************************************************************)
C3_BearerTokenGate ==
  [][ Served(TaskOps) =>
        /\ PresentsHeldToken(last'.hdr) <=>
             last'.status \in {HTTP_200_OK, HTTP_201_CREATED, HTTP_204_NO_CONTENT,
                               HTTP_404_NOT_FOUND}
        /\ ~PresentsHeldToken(last'.hdr) =>
             /\ last'.status = HTTP_401_UNAUTHORIZED
             /\ tasks_db' = tasks_db
             /\ tokens_db' = tokens_db ]_vars

(* A mutation is refused for a bearer token that is not in a map holding   *)
(* two other tokens.                                                       *)
C3_Witness ==
  /\ last.op = "delete_task"
  /\ last.status = HTTP_401_UNAUTHORIZED
  /\ last.hdr # NoHeader
  /\ Cardinality(DOMAIN tokens_db) = 2
  /\ FindTask(tasks_db, 1) = 0

(***************************************************************************)
(* C4: a request of a caller identified by a held token is performed iff   *)
(* the scopes granted to the token include the scope the operation         *)
(* requires (read for queries, write for mutations); otherwise it is       *)
(* answered 403 and not performed.  Stated as written.                     *)
(***************************************************************************)
C4_ScopeEnforced ==
  [][ Served(TaskOps) /\ PresentsHeldToken(last'.hdr) =>
        IF RequiredScopes(last'.op) \subseteq EntryOf(last'.hdr[2]).scope
        THEN last'.status \notin {HTTP_401_UNAUTHORIZED, 403}
        ELSE last'.status = 403 /\ tasks_db' = tasks_db ]_vars

(***************************************************************************)
(* C5: a request that presents a held token whose lifetime has elapsed is  *)
(* answered 401.  Stated as written.                                       *)
(***************************************************************************)
C5_ExpiredTokenRejected ==
  [][ /\ Served(TaskOps)
      /\ PresentsHeldToken(last'.hdr)
      /\ now >= ExpiresAt(EntryOf(last'.hdr[2]))
      => last'.status = HTTP_401_UNAUTHORIZED ]_vars

C7_LabelsDoNotCollide ==
  [][ Served(ExchangeOps) /\ last'.status = HTTP_200_OK =>
        \A tok \in ProviderTokens : TokenHeld(tok) => TokenHeld(tok)' ]_vars

(***************************************************************************)
(* C8: right after create returned the record r, the record get(r.id)      *)
(* finds is r.  Stated as written.                                         *)
(***************************************************************************)
C8_GetAfterCreate ==
  (last.op = "create_task" /\ last.status = HTTP_201_CREATED) =>
     /\ FindTask(tasks_db, last.body.id) # 0
     /\ tasks_db[FindTask(tasks_db, last.body.id)] = last.body

(***************************************************************************)
(* C9: right after delete(id) succeeded, get(id) and delete(id) find no    *)
(* record.  Stated as written.                                             *)
(***************************************************************************)
C9_GetAfterDelete ==
  (last.op = "delete_task" /\ last.status = HTTP_204_NO_CONTENT) =>
     FindTask(tasks_db, last.args) = 0

(***************************************************************************)
(* C10: for skip >= 0 and limit >= 0 an authenticated list request is      *)
(* answered 200 with the records at positions skip .. min(skip+limit, n)-1 *)
(* (0-based) of the n stored records in order, the empty sequence when     *)
(* skip >= n or limit = 0.                                                 *)
(***************************************************************************)
C10_ListSlice ==
  (last.op = "read_tasks" /\ last.status # HTTP_401_UNAUTHORIZED) =>
     LET skip == last.args.skip
         limit == last.args.limit
         n == Len(tasks_db)
     IN  (skip >= 0 /\ limit >= 0) =>
           /\ last.status = HTTP_200_OK
           /\ Len(last.body) = (IF skip >= n \/ limit = 0 THEN 0
                                ELSE Min(skip + limit, n) - skip)
           /\ \A k \in 1..Len(last.body) : last.body[k] = tasks_db[skip + k]

(* A list, after a create, whose window runs past the end of the store.    *)
C10_Witness ==
  /\ last.op = "read_tasks"
  /\ last.status = HTTP_200_OK
  /\ Len(issued) = 1
  /\ last.args.skip > 0
  /\ last.args.skip < Len(tasks_db)
  /\ last.args.skip + last.args.limit > Len(tasks_db)
  /\ Len(last.body) = 1

(***************************************************************************)
(* C11: a successful update(id, fields) replaces the fields of the first   *)
(* record with that id by the given fields and keeps its id; the number of *)
(* records, the position of the record and every other record are          *)
(* unchanged.                                                              *)
(***************************************************************************)
C11_UpdateFrame ==
  [][ Served({"update_task"}) /\ last'.status = HTTP_200_OK =>
        LET id == last'.args.task_id
            f == last'.args.task_update
        IN  /\ Len(tasks_db') = Len(tasks_db)
            /\ \E i \in DOMAIN tasks_db :
                 /\ tasks_db[i].id = id
                 /\ tasks_db'[i].id = id
                 /\ tasks_db'[i].Task_Name__c = f.Task_Name__c
                 /\ tasks_db'[i].Status = f.Status
                 /\ tasks_db'[i].Priority = f.Priority
                 /\ tasks_db'[i].Capacite__c = f.Capacite__c
                 /\ tasks_db'[i].Effort_Realise__c = f.Effort_Realise__c
                 /\ tasks_db'[i].subject = f.subject
                 /\ last'.body = tasks_db'[i]
                 /\ \A j \in DOMAIN tasks_db : j # i => tasks_db'[j] = tasks_db[j] ]_vars

(* An update of seeded record 20 after record 1 was deleted: the record    *)
(* sits at position 19 with new fields, its neighbour is untouched.        *)
C11_Witness ==
  /\ last.op = "update_task"
  /\ last.status = HTTP_200_OK
  /\ last.args.task_id = SeedCount
  /\ Len(tasks_db) = SeedCount - 1
  /\ tasks_db[SeedCount - 1].id = SeedCount
  /\ tasks_db[SeedCount - 1].Task_Name__c = "y"
  /\ tasks_db[SeedCount - 2] = SeedTask(SeedCount - 1)

(***************************************************************************)
(* C12: get, update and delete of an id no stored record has are answered  *)
(* NotFound, and tasks_db is the same after the call as before.            *)
(***************************************************************************)
RequestedId(r) == IF r.op = "update_task" THEN r.args.task_id ELSE r.args

C12_UnknownIdNotFound ==
  [][ /\ Served({"read_task", "update_task", "delete_task"})
      /\ last'.status # HTTP_401_UNAUTHORIZED
      /\ \A i \in DOMAIN tasks_db : tasks_db[i].id # RequestedId(last')
      => /\ last'.status = HTTP_404_NOT_FOUND
         /\ last'.body = "Task not found"
         /\ tasks_db' = tasks_db ]_vars

(* A second delete of id 1, after the first one removed the record.        *)
C12_Witness ==
  /\ last.op = "delete_task"
  /\ last.status = HTTP_404_NOT_FOUND
  /\ last.args = 1
  /\ Len(tasks_db) = SeedCount - 1

(***************************************************************************)
(* C13: when creates run concurrently, each receives a distinct id and all *)
(* created records are in the store afterwards.  Stated as written.        *)
(***************************************************************************)
Created(t) ==
  thr[t].pc = "done" /\ thr[t].op = "create_task" /\ thr[t].status = HTTP_201_CREATED

C13_ConcurrentCreatesAtomic ==
  \A t, u \in Threads :
     (t # u /\ Created(t) /\ Created(u)) =>
        /\ thr[t].body.id # thr[u].body.id
        /\ \E i \in DOMAIN tasks_db : tasks_db[i] = thr[t].body

(***************************************************************************)
(* C14: an update or delete of id X that ran while another thread deleted  *)
(* a different id Y replaced or removed a record whose id is X and did not *)
(* fail with an index error.  Stated as written.                           *)
(***************************************************************************)
Wrote(t) ==
  /\ thr[t].pc = "done"
  /\ thr[t].op \in {"update_task", "delete_task"}
  /\ thr[t].status \notin {HTTP_401_UNAUTHORIZED, HTTP_404_NOT_FOUND}

DeletesOther(u, id) ==
  /\ thr[u].pc \in {"pop", "done"}
  /\ thr[u].op = "delete_task"
  /\ thr[u].task_id # id

C14_ScanAndWriteAtomic ==
  \A t, u \in Threads :
     (t # u /\ Wrote(t) /\ DeletesOther(u, thr[t].task_id)) =>
        /\ thr[t].status # 500
        /\ thr[t].hit = thr[t].task_id

(***************************************************************************)
(* C15: an exchange call (the callback, or the token endpoint with a code  *)
(* under authorization_code or a refresh token under refresh_token) makes  *)
(* exactly one request to the provider, whether the provider accepts or    *)
(* rejects; a token-endpoint call with other parameters makes none, is     *)
(* answered with an error and changes no state.                            *)
(***************************************************************************)
ValidGrant(params) ==
  \/ params.grant_type = "authorization_code" /\ params.code # << >>
  \/ params.grant_type = "refresh_token" /\ params.refresh_token # << >>

C15_OneOutboundRequest ==
  [][ Served(ExchangeOps) =>
        IF last'.op = "oauth_callback" \/ ValidGrant(last'.args)
        THEN /\ last'.posts = 1
             /\ last'.provider.status_code # 0
        ELSE /\ last'.posts = 0
             /\ last'.status = HTTP_400_BAD_REQUEST
             /\ last'.body = "Invalid request parameters"
             /\ tokens_db' = tokens_db
             /\ tasks_db' = tasks_db ]_vars

(* A refresh_token grant without a refresh token, with a token held.       *)
C15_Witness ==
  /\ last.op = "token"
  /\ last.posts = 0
  /\ last.args.grant_type = "refresh_token"
  /\ TokenHeld(TokC)

(***************************************************************************)
(* C16: building the authorization redirect, the status and current-user   *)
(* endpoints and the task queries list and get leave tasks_db and          *)
(* tokens_db unchanged and make no request to the provider.                *)
(***************************************************************************)
ReadOnlyOps ==
  {"authorize", "login_redirect", "get_status", "read_users_me", "read_tasks", "read_task"}

C16_ReadOnlyOpsChangeNothing ==
  [][ Served(ReadOnlyOps) =>
        /\ tasks_db' = tasks_db
        /\ tokens_db' = tokens_db
        /\ last'.posts = 0
        /\ last'.provider = NoProvider ]_vars

(* The current-user endpoint answered a caller whose token is one of two   *)
(* held, after the store was changed.                                      *)
C16_Witness ==
  /\ last.op = "read_users_me"
  /\ last.status = HTTP_200_OK
  /\ Cardinality(DOMAIN tokens_db) = 2
  /\ Len(tasks_db) # SeedCount

(***************************************************************************)
(* C17: a successful delete(id) removes exactly one record, the first in   *)
(* insertion order whose id is id; the store shrinks by one and the other  *)
(* records keep their fields and their relative order.                     *)
(***************************************************************************)
C17_DeleteFrame ==
  [][ Served({"delete_task"}) /\ last'.status = HTTP_204_NO_CONTENT =>
        /\ Len(tasks_db') = Len(tasks_db) - 1
        /\ \E i \in DOMAIN tasks_db :
             /\ tasks_db[i].id = last'.args
             /\ \A j \in 1..(i - 1) : tasks_db[j].id # last'.args
             /\ \A k \in 1..(i - 1) : tasks_db'[k] = tasks_db[k]
             /\ \A k \in i..(Len(tasks_db) - 1) : tasks_db'[k] = tasks_db[k + 1] ]_vars

(* delete(20) with two records of id 20 stored: the seeded one is gone,    *)
(* the created one remains, now last of 19 records.                        *)
C17_Witness ==
  /\ last.op = "delete_task"
  /\ last.status = HTTP_204_NO_CONTENT
  /\ last.args = SeedCount
  /\ Len(issued) = 1
  /\ Len(tasks_db) = SeedCount - 1
  /\ tasks_db[Len(tasks_db)].id = SeedCount
  /\ tasks_db[Len(tasks_db)].Task_Name__c = "x"

(***************************************************************************)
(* C18: while no delete has succeeded the stored ids are 1..n in order and *)
(* a create returns n + 1 (the length after it); in every state the id of  *)
(* a record is at least its 1-based position.                              *)
(***************************************************************************)
C18_IdsAndPositions ==
  /\ NumDeleted = 0 =>
       /\ \A i \in DOMAIN tasks_db : tasks_db[i].id = i
       /\ \A k \in DOMAIN issued : issued[k] = SeedCount + k
       /\ (last.op = "create_task" /\ last.status = HTTP_201_CREATED) =>
             last.body.id = Len(tasks_db)
  /\ \A i \in DOMAIN tasks_db : tasks_db[i].id >= i

(* A create after a delete: the new record's id is its position, the       *)
(* seeded records' ids are above theirs.                                   *)
C18_Witness ==
  /\ NumDeleted = 1
  /\ Len(issued) = 1
  /\ tasks_db[1].id = 2
  /\ tasks_db[Len(tasks_db)].id = Len(tasks_db)

====
